---- MODULE Spec2Model ----
(***************************************************************************)
(* Resilience layer of the quotron proxies: the SimpleCache TTL cache, the *)
(* data providers built on it (economic_proxy.py, gtrends_proxy.py,        *)
(* yfinance_proxy.py), their heartbeat, and the data_source_health store   *)
(* written by HealthMonitor and the dashboard.                             *)
(*                                                                         *)
(* The specifications share the variables:                                 *)
(*   Spec        - the SimpleCache API driven directly (get/set/delete/    *)
(*                 clear and the clock);                                   *)
(*   ProxySpec   - one proxy process: request handlers, admin cache clear, *)
(*                 heartbeat_check and the upstream it calls;              *)
(*   RouteSpec   - the Flask layer of a proxy: routes, /health and the     *)
(*                 after_request hook;                                     *)
(*   WatchedSpec - ProxySpec with the upstream calls observed;             *)
(*   HealthSpec  - the writers of the data_source_health table;            *)
(*   WritersSpec - HealthMonitor instances writing at the same time;       *)
(*   StoreSpec   - a proxy and a HealthMonitor beside each other;          *)
(*   ThreadSpec, HandlerSpec - request threads inside SimpleCache and      *)
(*                 _fetch_and_cache_data, statement by statement.          *)
(* Time is an integer clock; TTLs are counted in clock ticks.              *)
(***************************************************************************)
EXTENDS Integers, Sequences, FiniteSets, TLC

VARIABLES
    now,                 \* datetime.now(): the wall clock, in ticks
    default_ttl,         \* SimpleCache.default_ttl
    cache,               \* SimpleCache.cache: key -> (value, expiry)
    stats,               \* SimpleCache.stats: hits, misses, entries, evictions
    ret,                 \* the last SimpleCache call and what it returned
    proxy,               \* which proxy script this process runs
    upstream,            \* whether the third-party API answers or raises
    request_stats,       \* provider.request_stats
    outcome,             \* the last provider call and how it ended
    streak,              \* observation: consecutive failed upstream calls
    health_check_status, \* module-level health_check_status dict
    hb,                  \* heartbeat: armed timers, executions, last report
    resp,                \* the last HTTP request served and its health report
    threads,             \* each request thread's position inside a cache call
    locks,               \* SimpleCache.locks: key -> the lock object stored for it
    started,             \* calls begun by the threads
    gets,                \* SimpleCache.get calls begun by the threads
    schema,              \* column defaults of table data_source_health
    rows,                \* table data_source_health
    writers,             \* each HealthMonitor's position inside update_health_status
    hret                 \* the last health write and what it did

vars == <<now, default_ttl, cache, stats, ret, proxy, upstream, request_stats,
          outcome, streak, health_check_status, hb, resp, threads, locks, started, gets,
          schema, rows, writers, hret>>

cacheVars  == <<default_ttl, cache, stats, ret>>
proxyVars  == <<proxy, upstream, request_stats, outcome, streak,
                health_check_status, hb, resp>>
healthVars == <<schema, rows, writers, hret>>
threadVars == <<threads, locks, started, gets>>

(***************************************************************************)
(* Bounds of the model.                                                    *)
(***************************************************************************)
MaxTime == 3         \* the clock runs 0..MaxTime
MaxTTL == 2          \* ttl arguments and default_ttl are drawn from 0..MaxTTL
MaxGets == 2         \* SimpleCache.get calls in one behaviour of Spec
MaxEntries == 2      \* cap on stats.entries

Keys == {"k1", "k2"}

\* Python's None: the default returned by SimpleCache.get on a miss.
None == [none |-> TRUE]

\* A cached payload (the proxies cache non-empty dicts).
Payload(d, src) == [data |-> d, source |-> src]

Values == {Payload("v1", "test"), Payload("v2", "test")}

NoKey == "-"

\* An optional argument is <<>> when omitted (None) and <<x>> when given.
Omitted == <<>>
Given(x) == <<x>>

(***************************************************************************)
(* SimpleCache                                                             *)
(***************************************************************************)
EmptyStats == [hits |-> 0, misses |-> 0, entries |-> 0, evictions |-> 0]

DictDel_Keep(c, k) == c

\* del self.cache[key]
DictDel(c, k) == [x \in DOMAIN c \ {k} |-> c[x]]

DictPut_Only(c, k, e) == [x \in {k} |-> e]

\* self.cache[key] = (value, expiry)
DictPut(c, k, e) == [x \in DOMAIN c \cup {k} |-> IF x = k THEN e ELSE c[x]]

NotExpired_Inclusive(expiry, t) == expiry >= t

\* if expiry > datetime.now()
NotExpired(expiry, t) == expiry > t

SimpleCache_get_AlwaysMiss(c, s, key, t) ==
    [cache |-> c, stats |-> [s EXCEPT !.misses = @ + 1], value |-> None]

\* SimpleCache.get(key): the new cache, the new stats and the returned value.
SimpleCache_get(c, s, key, t) ==
    IF key \in DOMAIN c
    THEN IF NotExpired(c[key].expiry, t)
         THEN [cache |-> c,
               stats |-> [s EXCEPT !.hits = @ + 1],
               value |-> c[key].value]
         ELSE [cache |-> DictDel(c, key),
               stats |-> [s EXCEPT !.evictions = @ + 1, !.misses = @ + 1],
               value |-> None]
    ELSE [cache |-> c,
          stats |-> [s EXCEPT !.misses = @ + 1],
          value |-> None]

SimpleCache_set_NoTTL(c, s, key, value, ttl, t, dttl) ==
    [cache |-> DictPut(c, key, [value |-> value, expiry |-> t]),
     stats |-> IF key \notin DOMAIN c THEN [s EXCEPT !.entries = @ + 1] ELSE s]

\* SimpleCache.set(key, value, ttl=None)
SimpleCache_set(c, s, key, value, ttl, t, dttl) ==
    LET ttl1 == IF ttl = Omitted THEN dttl ELSE ttl[1]
        expiry == t + ttl1
    IN  [cache |-> DictPut(c, key, [value |-> value, expiry |-> expiry]),
         stats |-> IF key \notin DOMAIN c THEN [s EXCEPT !.entries = @ + 1] ELSE s]

\* SimpleCache.delete(key)
SimpleCache_delete(c, key) == IF key \in DOMAIN c THEN DictDel(c, key) ELSE c

SimpleCache_clear_ResetAll(c, s) ==
    [cache |-> [x \in {} |-> None], stats |-> EmptyStats]

\* SimpleCache.clear(): every key removed, stats["entries"] = 0
SimpleCache_clear(c, s) ==
    [cache |-> [x \in {} |-> None], stats |-> [s EXCEPT !.entries = 0]]

EmptyCache == [x \in {} |-> None]
\* The last call of the SimpleCache API and what it returned; evicted: the key
\* the latest evicting get removed, until that key is set again.
NoCall ==
    [op |-> "none", key |-> NoKey, arg |-> None, ttl |-> Omitted, at |-> 0,
     value |-> None, evicted |-> NoKey]

(***************************************************************************)
(* Initial values of the parts a specification does not exercise.          *)
(***************************************************************************)
\* provider.request_stats; last_request_time, a timestamp that only /metrics
\* shows, is left out.
EmptyRequestStats ==
    [total_requests |-> 0, successful_requests |-> 0, failed_requests |-> 0,
     api_calls |-> 0]

NoError == "-"
\* call: which handler; key: its cache key; kind: hit, fetched or raised;
\* value: what it returned; fetch_error: what fetch_func raised; error: what
\* the handler raised.
NoOutcome ==
    [call |-> "none", key |-> NoKey, kind |-> "none", value |-> None,
     fetch_error |-> NoError, error |-> NoError]

NoStreak == [count |-> 0, last_failure_at |-> 0, recovered |-> FALSE, trial_failed |-> FALSE]

\* health_check_status = {"status": "ok", "last_check": now, ...}
InitialHealthCheckStatus ==
    [status |-> "ok", last_check |-> 0, consecutive_failures |-> 0, is_healthy |-> TRUE]

NoReport == [status |-> "none", error_message |-> NoError, consecutive_failures |-> 0,
             response_time_ms |-> <<>>, delivered |-> FALSE]

\* A health report of after_request, and the last response served: seq counts
\* the responses; reports: the report_health calls its after_request made.
NoRequestReport == [status |-> "none", response_time_ms |-> <<>>, delivered |-> FALSE]
NoBody == [kind |-> "none"]
NoResponse ==
    [seq |-> 0, path |-> "-", status_code |-> 0, body |-> NoBody, reports |-> 0,
     report |-> NoRequestReport, raised |-> FALSE]

InitialHeartbeat ==
    [health_enabled |-> FALSE, timers |-> 0, runs |-> 0, sent |-> 0, raised |-> FALSE,
     report |-> NoReport]

\* Table data_source_health: its rows in the order of their ids.
EmptyTable == <<>>
Null == <<>>
\* writer: which function wrote; key: <<source_type, source_name>> it wrote
\* for ("*" for a writer that selects by source_name alone); done: whether
\* the write was committed; raised: whether an exception left the call;
\* seq: writes so far.
NoWrite ==
    [writer |-> "none", key |-> <<>>, status |-> "none", at |-> 0, done |-> FALSE,
     raised |-> FALSE, seq |-> 0]
\* Columns an INSERT leaves out take the column's default.  The table is
\* created outside this source tree: last_success may default to NULL or to
\* the insertion time, error_count to a constant.
\* unique: whether (source_type, source_name) carries a unique constraint.
Schemas == [last_success : {"null", "now"}, error_count : {0, 1}, unique : BOOLEAN]
PlainSchema == [last_success |-> "null", error_count |-> 0, unique |-> TRUE]

Writers == {"w1", "w2"}
\* pc: idle, or selected (between the SELECT and the UPDATE or INSERT); key,
\* status, at: the report; id, error_count: what the SELECT returned.
IdleWriter ==
    [pc |-> "idle", key |-> <<>>, status |-> "none", at |-> 0, id |-> 0,
     error_count |-> 0]

ProxyIdle ==
    /\ proxy = "none"
    /\ upstream = "up"
    /\ request_stats = EmptyRequestStats
    /\ outcome = NoOutcome
    /\ streak = NoStreak
    /\ health_check_status = InitialHealthCheckStatus
    /\ hb = InitialHeartbeat
    /\ resp = NoResponse

Threads == {"t1", "t2"}
NoLock == "-"
\* pc: the thread's position; op: the call it runs; sub: the SimpleCache
\* method it is inside; key, ttl: that method's arguments; lock: who created
\* the lock object it took from self.locks[key]; tmp: the counter value it
\* read for `+= 1`; todo: keys clear() has still to visit; fetched: whether
\* this call invoked the upstream; val: what get returned.
IdleThread ==
    [pc |-> "idle", op |-> "none", sub |-> "none", key |-> NoKey, ttl |-> Omitted,
     lock |-> NoLock, tmp |-> 0, todo |-> {}, fetched |-> FALSE, val |-> None]

ThreadIdle ==
    /\ threads = [t \in Threads |-> IdleThread]
    /\ locks = [x \in {} |-> NoLock]
    /\ started = 0
    /\ gets = 0

HealthIdle ==
    /\ schema = PlainSchema
    /\ rows = EmptyTable
    /\ writers = [w \in Writers |-> IdleWriter]
    /\ hret = NoWrite

(***************************************************************************)
(* Spec: the SimpleCache API called directly.                              *)
(***************************************************************************)
TTLArgs == {Omitted} \cup {Given(n) : n \in 0..MaxTTL}

\* SimpleCache(default_ttl=...)
Init ==
    /\ now = 0
    /\ default_ttl \in 1..MaxTTL
    /\ cache = EmptyCache
    /\ stats = EmptyStats
    /\ ret = NoCall
    /\ ProxyIdle
    /\ HealthIdle
    /\ ThreadIdle

\* The clock advances.
Tick ==
    /\ now < MaxTime
    /\ now' = now + 1
    /\ UNCHANGED <<cacheVars, proxyVars, healthVars, threadVars>>

CacheGet(k) ==
    /\ stats.hits + stats.misses < MaxGets
    /\ LET g == SimpleCache_get(cache, stats, k, now)
       IN  /\ cache' = g.cache
           /\ stats' = g.stats
           /\ ret' = [op |-> "get", key |-> k, arg |-> None, ttl |-> Omitted, at |-> now,
                      value |-> g.value,
                      evicted |-> IF g.stats.evictions # stats.evictions
                                  THEN k ELSE ret.evicted]
    /\ UNCHANGED <<now, default_ttl, proxyVars, healthVars, threadVars>>

CacheSet(k, v, ttl) ==
    /\ k \in DOMAIN cache \/ stats.entries < MaxEntries
    /\ LET st == SimpleCache_set(cache, stats, k, v, ttl, now, default_ttl)
       IN  /\ cache' = st.cache
           /\ stats' = st.stats
           /\ ret' = [op |-> "set", key |-> k, arg |-> v, ttl |-> ttl, at |-> now,
                      value |-> None,
                      evicted |-> IF ret.evicted = k THEN NoKey ELSE ret.evicted]
    /\ UNCHANGED <<now, default_ttl, proxyVars, healthVars, threadVars>>

CacheDelete(k) ==
    /\ cache' = SimpleCache_delete(cache, k)
    /\ ret' = [op |-> "delete", key |-> k, arg |-> None, ttl |-> Omitted, at |-> now,
               value |-> None, evicted |-> ret.evicted]
    /\ UNCHANGED <<now, default_ttl, stats, proxyVars, healthVars, threadVars>>

CacheClear ==
    /\ LET cl == SimpleCache_clear(cache, stats)
       IN  /\ cache' = cl.cache
           /\ stats' = cl.stats
    /\ ret' = [op |-> "clear", key |-> NoKey, arg |-> None, ttl |-> Omitted, at |-> now,
               value |-> None, evicted |-> ret.evicted]
    /\ UNCHANGED <<now, default_ttl, proxyVars, healthVars, threadVars>>

Next ==
    \/ Tick
    \/ \E k \in Keys : CacheGet(k)
    \/ \E k \in Keys, v \in Values, ttl \in TTLArgs : CacheSet(k, v, ttl)
    \/ \E k \in Keys : CacheDelete(k)
    \/ CacheClear

Spec == Init /\ [][Next]_vars

(***************************************************************************)
(* ProxySpec: one proxy process.                                           *)
(***************************************************************************)
MaxRequests == 3     \* provider calls (requests and heartbeat canaries)
MaxBeats == 2        \* executions of heartbeat_check

Proxies == {"economic", "trends", "yfinance"}

Datas == {"d1"}              \* what the upstream answers
Errors == {"e1", "e2"}       \* what a failing fetch raises

\* The calls a route makes into _fetch_and_cache_data: (cache_type, argument).
Requests(p) ==
    CASE p = "economic" ->
           {[cache_type |-> "indicator", symbol |-> x] : x \in {"GDP:5y", "UNRATE:5y"}}
      [] p = "trends" ->
           {[cache_type |-> ct, symbol |-> "python:today 5-y"] :
                ct \in {"interest_over_time", "related_queries"}}
      [] p = "yfinance" ->
           {[cache_type |-> "market", symbol |-> x] : x \in {"^GSPC", "^DJI"}}
      [] OTHER -> {}

\* cache_key = f"{cache_type}:{symbol}"
CacheKey(cache_type, symbol) == cache_type \o ":" \o symbol

\* heartbeat_check's canary: get_indicator("GDP"), get_interest_over_time("python")
CanaryRequest(p) ==
    IF p = "economic"
    THEN [cache_type |-> "indicator", symbol |-> "GDP:5y"]
    ELSE [cache_type |-> "interest_over_time", symbol |-> "python:today 5-y"]

\* What fetch_func does when called: return data ("up") or raise ("down").
UpstreamStates == {"up", "down"}

\* fetch_func's return value
FetchData(up, d) == Payload(d, "api")

\* transform_func(data, symbol): a dict built around the fetched data
Transform(raw, symbol) == [symbol |-> symbol, data |-> raw.data, source |-> raw.source]

Truthy_Never(v) == FALSE

\* if cached_data:
Truthy(v) == v # None

Reraise_Generic(e) == "fetch failed"

\* raise e
Reraise(e) == e

CountFailure_Skip(rs) == rs

\* self.request_stats["failed_requests"] += 1
CountFailure(rs) == [rs EXCEPT !.failed_requests = @ + 1]

\* EconomicDataProvider._fetch_and_cache_data and the identical
\* TrendsDataProvider._fetch_and_cache_data, with fetch_func answering by `up`.
Provider_fetch_and_cache_data(c, s, rs, cache_type, symbol, t, dttl, up, d, e) ==
    LET rs1 == [rs EXCEPT !.total_requests = @ + 1]
        cache_key == CacheKey(cache_type, symbol)
        g == SimpleCache_get(c, s, cache_key, t)
    IN  IF Truthy(g.value)
        THEN [cache |-> g.cache, stats |-> g.stats, request_stats |-> rs1,
              kind |-> "hit", value |-> g.value, fetch_error |-> NoError, error |-> NoError]
        ELSE LET rs2 == [rs1 EXCEPT !.api_calls = @ + 1]
             IN  IF up # "down"
                 THEN LET result == Transform(FetchData(up, d), symbol)
                          st == SimpleCache_set(g.cache, g.stats, cache_key, result,
                                                Omitted, t, dttl)
                      IN  [cache |-> st.cache, stats |-> st.stats,
                           request_stats |-> [rs2 EXCEPT !.successful_requests = @ + 1],
                           kind |-> "fetched", value |-> result, fetch_error |-> NoError,
                           error |-> NoError]
                 ELSE [cache |-> g.cache, stats |-> g.stats,
                       request_stats |-> CountFailure(rs2),
                       kind |-> "raised", value |-> None, fetch_error |-> e,
                       error |-> Reraise(e)]

\* StockDataProvider._fetch_and_cache_data: no try/except around the fetch.
Stock_fetch_and_cache_data(c, s, rs, cache_type, symbol, t, dttl, up, d, e) ==
    LET rs1 == [rs EXCEPT !.total_requests = @ + 1]
        cache_key == CacheKey(cache_type, symbol)
        g == SimpleCache_get(c, s, cache_key, t)
    IN  IF Truthy(g.value)
        THEN [cache |-> g.cache, stats |-> g.stats, request_stats |-> rs1,
              kind |-> "hit", value |-> g.value, fetch_error |-> NoError, error |-> NoError]
        ELSE LET rs2 == [rs1 EXCEPT !.api_calls = @ + 1]
             IN  IF up # "down"
                 THEN LET result == Transform(FetchData(up, d), symbol)
                          st == SimpleCache_set(g.cache, g.stats, cache_key, result,
                                                Omitted, t, dttl)
                      IN  [cache |-> st.cache, stats |-> st.stats,
                           request_stats |-> [rs2 EXCEPT !.successful_requests = @ + 1],
                           kind |-> "fetched", value |-> result, fetch_error |-> NoError,
                           error |-> NoError]
                 ELSE [cache |-> g.cache, stats |-> g.stats, request_stats |-> rs2,
                       kind |-> "raised", value |-> None, fetch_error |-> e, error |-> e]

Stock_get_stock_quote_Counted(c, s, rs) ==
    [cache |-> c, stats |-> s,
     request_stats |-> [rs EXCEPT !.total_requests = @ + 1, !.failed_requests = @ + 1],
     kind |-> "raised", value |-> None, fetch_error |-> NoError, error |-> "RuntimeError"]

\* StockDataProvider.get_stock_quote: raises before anything else.
Stock_get_stock_quote(c, s, rs) ==
    [cache |-> c, stats |-> s, request_stats |-> rs,
     kind |-> "raised", value |-> None, fetch_error |-> NoError, error |-> "RuntimeError"]

(***************************************************************************)
(* Observation of the upstream calls, for the claims about the circuit     *)
(* breaker and the retry policy the module docstrings announce.  It is     *)
(* written by no code and read by no action.                               *)
(***************************************************************************)
FailureThreshold == 2    \* failure_threshold of the announced breaker
RecoveryTimeout == 1     \* its recovery_timeout, in ticks
MaxRetries == 3          \* max_retries of the announced retry policy

\* Upstream calls enough for: a failing streak, a success after the recovery
\* timeout, a second failing streak and one more call.
MaxWatched == 2 * FailureThreshold + 2

Observe(st, kind, t) ==
    CASE kind = "raised" ->
           [st EXCEPT !.count = @ + 1, !.last_failure_at = t,
                      !.trial_failed = (st.count >= FailureThreshold
                                        /\ t - st.last_failure_at >= RecoveryTimeout)]
      [] kind = "fetched" ->
           [st EXCEPT !.count = 0, !.trial_failed = FALSE,
                      !.recovered = @ \/ (st.count >= FailureThreshold
                                          /\ t - st.last_failure_at >= RecoveryTimeout)]
      [] OTHER -> st

(***************************************************************************)
(* heartbeat_check                                                         *)
(***************************************************************************)
ReportHealthRaises_NoCatch(delivered) == ~delivered

\* HealthClient.report_health: the POST sits in try/except and the call
\* returns False on any error; it never raises.
ReportHealthRaises(delivered) == FALSE

\* heartbeat_check calls report_health without response_time_ms, which then
\* is None.
ResponseTimeArg == <<>>

MarkOk_KeepCount(hcs) == [hcs EXCEPT !.status = "ok", !.is_healthy = TRUE]

\* The three assignments after the canary call returned.
MarkOk(hcs) ==
    [hcs EXCEPT !.status = "ok", !.is_healthy = TRUE, !.consecutive_failures = 0]

\* The try/except of heartbeat_check, given how the canary call ended:
\* the new health_check_status, the reports sent, and whether an exception
\* left the function.  d1, d2: whether the health service accepted the report
\* sent from the try block / from the except block.
HeartbeatOutcome(kind, err, hcs, enabled, last, d1, d2) ==
    LET okHcs == MarkOk(hcs)
        tryReports == kind # "raised" /\ enabled
        tryRaised == tryReports /\ ReportHealthRaises(d1)
        inExcept == kind = "raised" \/ tryRaised
        base == IF kind = "raised" THEN hcs ELSE okHcs
        failHcs == [base EXCEPT !.consecutive_failures = @ + 1, !.status = "failed",
                                !.is_healthy = FALSE]
        exceptReports == inExcept /\ enabled
    IN  [hcs |-> IF inExcept THEN failHcs ELSE okHcs,
         sent |-> (IF tryReports THEN 1 ELSE 0) + (IF exceptReports THEN 1 ELSE 0),
         report |-> IF exceptReports
                    THEN [status |-> "failed",
                          error_message |-> IF kind = "raised" THEN err ELSE "report failed",
                          consecutive_failures |-> failHcs.consecutive_failures,
                          response_time_ms |-> ResponseTimeArg, delivered |-> d2]
                    ELSE IF tryReports
                         THEN [status |-> "healthy", error_message |-> NoError,
                               consecutive_failures |-> 0,
                               response_time_ms |-> ResponseTimeArg, delivered |-> d1]
                         ELSE last,
         raised |-> exceptReports /\ ReportHealthRaises(d2)]

\* Timers armed by one execution: threading.Timer(60, heartbeat_check).start()
\* is the last statement, reached unless an exception left the function.
TimersArmed(raised) == IF raised THEN 0 ELSE 1

\* SimpleCache(default_ttl=3600) and SimpleCache(default_ttl=300): the
\* provider's TTL, in ticks.
ProviderTTL == MaxTTL

ProxyInit ==
    /\ now = 0
    /\ default_ttl = ProviderTTL
    /\ cache = EmptyCache
    /\ stats = EmptyStats
    /\ ret = NoCall
    /\ proxy \in Proxies
    /\ upstream \in UpstreamStates
    /\ request_stats = EmptyRequestStats
    /\ outcome = NoOutcome
    /\ streak = NoStreak
    /\ health_check_status = InitialHealthCheckStatus
    /\ \E en \in BOOLEAN : hb = [InitialHeartbeat EXCEPT !.health_enabled = en]
    /\ resp = NoResponse
    /\ HealthIdle
    /\ ThreadIdle

\* app.run() follows the first heartbeat_check() in __main__; an exception
\* there ends the process.
Serving == hb.runs >= 1 /\ ~(hb.runs = 1 /\ hb.raised)

ProxyTick ==
    /\ now < MaxTime
    /\ now' = now + 1
    /\ UNCHANGED <<cacheVars, proxyVars, healthVars, threadVars>>

UpstreamChange(u) ==
    /\ u # upstream
    /\ upstream' = u
    /\ UNCHANGED <<now, cacheVars, proxy, request_stats, outcome, streak,
                   health_check_status, hb, resp, healthVars, threadVars>>

\* A route that goes through _fetch_and_cache_data: /indicator/<indicator>,
\* /interest-over-time/<keyword>, /related-queries/<keyword>, /market/<index>.
\* `watched`: whether the step is recorded in the observation `streak`.
Request(r, d, e, watched) ==
    /\ Serving
    /\ r \in Requests(proxy)
    /\ request_stats.total_requests < (IF watched THEN MaxWatched ELSE MaxRequests)
    /\ LET res == IF proxy = "yfinance"
                  THEN Stock_fetch_and_cache_data(cache, stats, request_stats,
                           r.cache_type, r.symbol, now, default_ttl, upstream, d, e)
                  ELSE Provider_fetch_and_cache_data(cache, stats, request_stats,
                           r.cache_type, r.symbol, now, default_ttl, upstream, d, e)
       IN  /\ cache' = res.cache
           /\ stats' = res.stats
           /\ request_stats' = res.request_stats
           /\ outcome' = [call |-> "request", key |-> CacheKey(r.cache_type, r.symbol),
                          kind |-> res.kind, value |-> res.value,
                          fetch_error |-> res.fetch_error, error |-> res.error]
           /\ streak' = IF watched THEN Observe(streak, res.kind, now) ELSE streak
    /\ UNCHANGED <<now, default_ttl, ret, proxy, upstream, health_check_status, hb, resp,
                   healthVars, threadVars>>

\* /quote/<symbol> of the yfinance proxy: get_stock_quote
QuoteRequest(symbol) ==
    /\ Serving
    /\ proxy = "yfinance"
    /\ LET res == Stock_get_stock_quote(cache, stats, request_stats)
       IN  /\ cache' = res.cache
           /\ stats' = res.stats
           /\ request_stats' = res.request_stats
           /\ outcome' = [call |-> "quote", key |-> CacheKey("quote", symbol),
                          kind |-> res.kind, value |-> res.value,
                          fetch_error |-> res.fetch_error, error |-> res.error]
    /\ UNCHANGED <<now, default_ttl, ret, proxy, upstream, streak, health_check_status,
                   hb, resp, healthVars, threadVars>>

\* POST /admin/cache/clear
ClearCache ==
    /\ Serving
    /\ LET cl == SimpleCache_clear(cache, stats)
       IN  /\ cache' = cl.cache
           /\ stats' = cl.stats
    /\ UNCHANGED <<now, default_ttl, ret, proxy, upstream, request_stats, outcome, streak,
                   health_check_status, hb, resp, healthVars, threadVars>>

\* One execution of heartbeat_check; `fired` is 1 when a timer started it and
\* 0 for the direct call in __main__.
heartbeat_check(fired, d, e, d1, d2, watched) ==
    /\ hb.runs < MaxBeats
    /\ proxy = "yfinance" \/ request_stats.total_requests < MaxRequests
    /\ LET c == CanaryRequest(proxy)
           res == IF proxy = "yfinance"
                  THEN Stock_get_stock_quote(cache, stats, request_stats)
                  ELSE Provider_fetch_and_cache_data(cache, stats, request_stats,
                           c.cache_type, c.symbol, now, default_ttl, upstream, d, e)
           o == HeartbeatOutcome(res.kind, res.error, health_check_status,
                                 hb.health_enabled, hb.report, d1, d2)
       IN  /\ cache' = res.cache
           /\ stats' = res.stats
           /\ request_stats' = res.request_stats
           /\ outcome' = [call |-> "heartbeat",
                          key |-> IF proxy = "yfinance" THEN CacheKey("quote", "AAPL")
                                  ELSE CacheKey(c.cache_type, c.symbol),
                          kind |-> res.kind, value |-> res.value,
                          fetch_error |-> res.fetch_error, error |-> res.error]
           /\ streak' = IF watched /\ proxy # "yfinance"
                        THEN Observe(streak, res.kind, now) ELSE streak
           /\ health_check_status' =
                  IF o.raised THEN o.hcs ELSE [o.hcs EXCEPT !.last_check = now]
           /\ hb' = [hb EXCEPT !.timers = @ - fired + TimersArmed(o.raised),
                               !.runs = @ + 1,
                               !.sent = o.sent,
                               !.raised = o.raised,
                               !.report = o.report]
    /\ UNCHANGED <<now, default_ttl, ret, proxy, upstream, resp, healthVars, threadVars>>

\* __main__: heartbeat_check() before app.run()
HeartbeatMain ==
    /\ hb.runs = 0
    /\ \E d \in Datas, e \in Errors, d1 \in BOOLEAN, d2 \in BOOLEAN :
           heartbeat_check(0, d, e, d1, d2, FALSE)

\* An armed threading.Timer fires.
HeartbeatTimer ==
    /\ hb.timers >= 1
    /\ \E d \in Datas, e \in Errors, d1 \in BOOLEAN, d2 \in BOOLEAN :
           heartbeat_check(1, d, e, d1, d2, FALSE)

ProxyNext ==
    \/ ProxyTick
    \/ \E u \in UpstreamStates : UpstreamChange(u)
    \/ \E r \in Requests(proxy), d \in Datas, e \in Errors : Request(r, d, e, FALSE)
    \/ \E x \in {"AAPL"} : QuoteRequest(x)
    \/ ClearCache
    \/ HeartbeatMain
    \/ HeartbeatTimer

ProxySpec == ProxyInit /\ [][ProxyNext]_vars

(***************************************************************************)
(* RouteSpec: the Flask layer of one proxy process: the data routes, the   *)
(* /health route, the after_request hook and the heartbeat.                *)
(***************************************************************************)
MaxResponses == 1    \* HTTP requests served in one behaviour

\* status = HEALTHY; if status_code >= 500: FAILED; elif >= 400: DEGRADED
ReportedStatus(status_code) ==
    IF status_code >= 500 THEN "failed"
    ELSE IF status_code >= 400 THEN "degraded"
    ELSE "healthy"

\* The URL path of a data route.
RoutePath(r) == "/" \o r.cache_type \o "/" \o r.symbol

\* What get_service_health does: a report found, none found (it returns
\* None), or the health service cannot be reached.
Lookups == {"found", "none", "unreachable"}

\* after_request(response).  ctx: whether the thread that runs
\* report_request_health can resolve request.path (a thread started by
\* threading.Thread has the request context only in builds whose threads
\* inherit the caller's context; without it the metadata expression raises
\* inside the thread's try block and report_health is not called).
\* delivered: whether the health service accepted the POST.
after_request(seq, path, status_code, body, enabled, ctx, delivered) ==
    LET called == path # "/health" /\ enabled /\ ctx
    IN  [seq |-> seq + 1, path |-> path, status_code |-> status_code, body |-> body,
         reports |-> IF called THEN 1 ELSE 0,
         report |-> IF called
                    THEN [status |-> ReportedStatus(status_code),
                          response_time_ms |-> Given("duration_ms"),
                          delivered |-> delivered]
                    ELSE NoRequestReport,
         raised |-> FALSE]

\* A data route: the provider call, the response (Flask answers 500 when the
\* view raises), then after_request.
RouteRequest(r, d, e, ctx, delivered) ==
    /\ Serving
    /\ r \in Requests(proxy)
    /\ resp.seq < MaxResponses
    /\ request_stats.total_requests < MaxRequests
    /\ LET res == IF proxy = "yfinance"
                  THEN Stock_fetch_and_cache_data(cache, stats, request_stats,
                           r.cache_type, r.symbol, now, default_ttl, upstream, d, e)
                  ELSE Provider_fetch_and_cache_data(cache, stats, request_stats,
                           r.cache_type, r.symbol, now, default_ttl, upstream, d, e)
           raised == res.kind = "raised"
       IN  /\ cache' = res.cache
           /\ stats' = res.stats
           /\ request_stats' = res.request_stats
           /\ outcome' = [call |-> "request", key |-> CacheKey(r.cache_type, r.symbol),
                          kind |-> res.kind, value |-> res.value,
                          fetch_error |-> res.fetch_error, error |-> res.error]
           /\ resp' = after_request(resp.seq, RoutePath(r),
                                    IF raised THEN 500 ELSE 200,
                                    IF raised THEN [kind |-> "error"]
                                    ELSE [kind |-> "data", value |-> res.value],
                                    hb.health_enabled, ctx, delivered)
    /\ UNCHANGED <<now, default_ttl, ret, proxy, upstream, streak, health_check_status,
                   hb, healthVars, threadVars>>

\* A URL no route matches: Flask answers 404, and after_request runs.
NotFoundRequest(ctx, delivered) ==
    /\ Serving
    /\ resp.seq < MaxResponses
    /\ resp' = after_request(resp.seq, "/nowhere", 404, [kind |-> "not_found"],
                             hb.health_enabled, ctx, delivered)
    /\ UNCHANGED <<now, cacheVars, proxy, upstream, request_stats, outcome, streak,
                   health_check_status, hb, healthVars, threadVars>>

health_FromService(hcs, enabled, lookup) ==
    [kind |-> "health",
     status |-> IF enabled /\ lookup = "unreachable" THEN "error" ELSE hcs.status,
     last_check |-> hcs.last_check,
     unified_health |-> enabled /\ lookup = "found"]

\* The view of GET /health: health_data from health_check_status, and the
\* unified_health block when the lookup returned a report.
health(hcs, enabled, lookup) ==
    [kind |-> "health", status |-> hcs.status, last_check |-> hcs.last_check,
     unified_health |-> enabled /\ lookup = "found"]

\* GET /health; after_request returns at once for this path.
HealthRequest(lookup) ==
    /\ Serving
    /\ resp.seq < MaxResponses
    /\ resp' = after_request(resp.seq, "/health", 200,
                             health(health_check_status, hb.health_enabled, lookup),
                             hb.health_enabled, FALSE, FALSE)
    /\ UNCHANGED <<now, cacheVars, proxy, upstream, request_stats, outcome, streak,
                   health_check_status, hb, healthVars, threadVars>>

RouteNext ==
    \/ ProxyTick
    \/ \E r \in Requests(proxy), d \in Datas, e \in Errors, ctx, delivered \in BOOLEAN :
          RouteRequest(r, d, e, ctx, delivered)
    \/ \E ctx, delivered \in BOOLEAN : NotFoundRequest(ctx, delivered)
    \/ \E lookup \in Lookups : HealthRequest(lookup)
    \/ HeartbeatMain
    \/ HeartbeatTimer

RouteSpec == ProxyInit /\ [][RouteNext]_vars

(***************************************************************************)
(* WatchedSpec: runs of the economic, trends and yfinance providers long   *)
(* enough for a failing streak, a recovery and a second failing streak,    *)
(* with every upstream call recorded in `streak`.  It leaves out the       *)
(* heartbeat timer and the admin route, so it shows behaviours of the      *)
(* proxy but not all of them.                                              *)
(***************************************************************************)
WatchedInit ==
    /\ ProxyInit
    /\ ~hb.health_enabled

WatchedStart ==
    /\ hb.runs = 0
    /\ \E d \in Datas, e \in Errors : heartbeat_check(0, d, e, FALSE, FALSE, TRUE)

WatchedRequest ==
    \E r \in Requests(proxy), d \in Datas, e \in Errors : Request(r, d, e, TRUE)

WatchedNext ==
    \/ ProxyTick
    \/ \E u \in UpstreamStates : UpstreamChange(u)
    \/ WatchedStart
    \/ WatchedRequest

WatchedSpec == WatchedInit /\ [][WatchedNext]_vars

(***************************************************************************)
(* HealthSpec: the writers of table data_source_health.                    *)
(***************************************************************************)
MaxWrites == 3

SourceNames == {"slickcharts", "yahoo_finance_proxy"}
\* (source_type, source_name) pairs reported for; two share a source_name.
HealthKeys ==
    {<<"browser-scraper", "slickcharts">>,
     <<"browser-scraper", "yahoo_finance_proxy">>,
     <<"api-scraper", "yahoo_finance_proxy">>}
AnyType == "*"

\* class HealthStatus
Statuses == {"healthy", "degraded", "failed", "limited", "unknown"}
\* WHEN %s IN ('healthy', 'degraded', 'limited')
SuccessStatuses == {"healthy", "degraded", "limited"}
\* if status in (HealthStatus.FAILED, "error")
CountedStatuses == {"failed", "error"}

\* The row ids a SELECT ... WHERE source_type = %s AND source_name = %s matches.
RowsOf(tbl, key) == {i \in DOMAIN tbl : tbl[i].key = key}

NoRow == 0

\* cursor.fetchone() after that SELECT: one of the matching rows (the query
\* has no ORDER BY), or None.
HealthMonitor_select(tbl, key) ==
    IF RowsOf(tbl, key) = {} THEN {NoRow} ELSE RowsOf(tbl, key)

\* The UPDATE ... WHERE id = %s of HealthMonitor.update_health_status, with
\* the error_count its SELECT returned.
HealthMonitor_update(tbl, id, selected_count, status, t) ==
    LET error_count == IF status \in CountedStatuses
                       THEN selected_count + 1
                       ELSE selected_count
    IN  [tbl EXCEPT ![id] =
            [key |-> tbl[id].key, status |-> status, last_check |-> t,
             error_count |-> error_count,
             last_success |-> IF status \in SuccessStatuses
                              THEN Given(t)
                              ELSE tbl[id].last_success]]

\* Its INSERT, which names neither last_success nor error_count.
HealthMonitor_insert(tbl, sch, key, status, t) ==
    Append(tbl, [key |-> key, status |-> status, last_check |-> t,
                 error_count |-> sch.error_count,
                 last_success |-> IF sch.last_success = "now" THEN Given(t) ELSE Null])

\* HealthMonitor.update_health_status between the connection check and the
\* commit, when no other writer runs in between: SELECT, then UPDATE of the
\* row found (id) or INSERT of a new one.
HealthMonitor_update_health_status(tbl, sch, key, status, t, id) ==
    IF id # NoRow
    THEN HealthMonitor_update(tbl, id, tbl[id].error_count, status, t)
    ELSE HealthMonitor_insert(tbl, sch, key, status, t)

\* dashboard.update_source_health and update_health.update_source_health:
\* one UPDATE ... WHERE source_name = %s; last_success is written when the
\* argument is truthy, whatever the status.
update_source_health(tbl, source_name, status, last_success, t) ==
    [i \in DOMAIN tbl |->
        IF tbl[i].key[2] = source_name
        THEN [tbl[i] EXCEPT !.status = status, !.last_check = t,
                            !.last_success = IF last_success # Null
                                             THEN last_success ELSE @]
        ELSE tbl[i]]

\* dashboard.update_health_status_failed: one UPDATE ... WHERE source_name.
update_health_status_failed(tbl, source_name, t) ==
    [i \in DOMAIN tbl |->
        IF tbl[i].key[2] = source_name
        THEN [tbl[i] EXCEPT !.status = "failed", !.last_check = t,
                            !.error_count = @ + 1]
        ELSE tbl[i]]

\* The dashboard's inline UPDATE after the proxy answered its health route or
\* was restarted: healthy, last_check = last_success = NOW().
mark_proxy_healthy(tbl, t) ==
    [i \in DOMAIN tbl |->
        IF tbl[i].key[2] = "yahoo_finance_proxy"
        THEN [tbl[i] EXCEPT !.status = "healthy", !.last_check = t,
                            !.last_success = Given(t)]
        ELSE tbl[i]]

MonitorRaises_NoCatch(connected, fails) == connected /\ fails

\* update_health_status returns at once without a connection, and its
\* statements sit in try/except whose handler rolls back: no exception
\* leaves the call.
MonitorRaises(connected, fails) == FALSE

Written(writer, key, status, done) ==
    [writer |-> writer, key |-> key, status |-> status, at |-> now, done |-> done,
     raised |-> FALSE, seq |-> hret.seq + 1]

HealthInit ==
    /\ now = 0
    /\ default_ttl = 1
    /\ cache = EmptyCache
    /\ stats = EmptyStats
    /\ ret = NoCall
    /\ ProxyIdle
    /\ ThreadIdle
    /\ schema \in {sch \in Schemas : sch.unique}
    /\ rows = EmptyTable
    /\ writers = [w \in Writers |-> IdleWriter]
    /\ hret = NoWrite

HealthTick ==
    /\ now < MaxTime
    /\ now' = now + 1
    /\ UNCHANGED <<cacheVars, proxyVars, healthVars, threadVars>>

\* HealthMonitor.update_health_status.  connected: db_conn is not None;
\* fails: a statement or the commit raises, and the except block rolls back.
MonitorReport(key, status, connected, fails) ==
    /\ hret.seq < MaxWrites
    /\ \E id \in HealthMonitor_select(rows, key) :
          rows' = IF connected /\ ~fails
                  THEN HealthMonitor_update_health_status(rows, schema, key, status,
                                                          now, id)
                  ELSE rows
    /\ hret' = [Written("monitor", key, status, connected /\ ~fails)
                   EXCEPT !.raised = MonitorRaises(connected, fails)]
    /\ UNCHANGED <<now, cacheVars, proxyVars, threadVars, schema, writers>>

\* update_source_health, as the dashboard and update_health.py call it: with
\* status "healthy" and the newest record's timestamp of the last 24 hours.
SourceHealthUpdate(source_name, last_success, fails) ==
    /\ hret.seq < MaxWrites
    /\ rows' = IF fails THEN rows
               ELSE update_source_health(rows, source_name, "healthy", last_success, now)
    /\ hret' = Written("update_source_health", <<AnyType, source_name>>, "healthy", ~fails)
    /\ UNCHANGED <<now, cacheVars, proxyVars, threadVars, schema, writers>>

ProxyFailedUpdate(fails) ==
    /\ hret.seq < MaxWrites
    /\ rows' = IF fails THEN rows
               ELSE update_health_status_failed(rows, "yahoo_finance_proxy", now)
    /\ hret' = Written("update_health_status_failed", <<AnyType, "yahoo_finance_proxy">>,
                       "failed", ~fails)
    /\ UNCHANGED <<now, cacheVars, proxyVars, threadVars, schema, writers>>

ProxyHealthyUpdate(fails) ==
    /\ hret.seq < MaxWrites
    /\ rows' = IF fails THEN rows ELSE mark_proxy_healthy(rows, now)
    /\ hret' = Written("mark_proxy_healthy", <<AnyType, "yahoo_finance_proxy">>,
                       "healthy", ~fails)
    /\ UNCHANGED <<now, cacheVars, proxyVars, threadVars, schema, writers>>

HealthNext ==
    \/ HealthTick
    \/ \E key \in HealthKeys, status \in Statuses, connected, fails \in BOOLEAN :
          MonitorReport(key, status, connected, fails)
    \/ \E source_name \in SourceNames, fails \in BOOLEAN,
          last_success \in {Null} \cup {Given(t) : t \in 0 .. now} :
          SourceHealthUpdate(source_name, last_success, fails)
    \/ \E fails \in BOOLEAN : ProxyFailedUpdate(fails)
    \/ \E fails \in BOOLEAN : ProxyHealthyUpdate(fails)

HealthSpec == HealthInit /\ [][HealthNext]_vars

(***************************************************************************)
(* WritersSpec: HealthMonitor instances, each on its own connection,        *)
(* reporting at the same time.  A writer's SELECT and its UPDATE or INSERT  *)
(* with the commit are two steps; another writer can commit in between.     *)
(***************************************************************************)
MaxReports == 3

\* The sources the browser scrapers report, and the statuses they report
\* them with.
WriterKeys == {k \in HealthKeys : k[1] = "browser-scraper"}
WriterStatuses == {"healthy", "failed"}

InFlight == {w \in Writers : writers[w].pc = "selected"}

WritersInit ==
    /\ now = 0
    /\ default_ttl = 1
    /\ cache = EmptyCache
    /\ stats = EmptyStats
    /\ ret = NoCall
    /\ ProxyIdle
    /\ ThreadIdle
    /\ schema \in Schemas
    /\ rows = EmptyTable
    /\ writers = [w \in Writers |-> IdleWriter]
    /\ hret = NoWrite

\* update_health_status from its entry to the fetchone() after the SELECT.
MonitorSelect(w, key, status) ==
    /\ writers[w].pc = "idle"
    /\ hret.seq + Cardinality(InFlight) < MaxReports
    /\ \E id \in HealthMonitor_select(rows, key) :
          writers' = [writers EXCEPT ![w] =
                         [pc |-> "selected", key |-> key, status |-> status,
                          at |-> now, id |-> id,
                          error_count |-> IF id = NoRow THEN 0
                                          ELSE rows[id].error_count]]
    /\ UNCHANGED <<now, cacheVars, proxyVars, threadVars, schema, rows, hret>>

\* The rest of update_health_status: the UPDATE of the row found, or the
\* INSERT, and the commit.  The INSERT raises when the key is unique and
\* another writer has committed its row since the SELECT; the except block
\* rolls back and the report is dropped.
MonitorWrite(w) ==
    LET me == writers[w]
        conflict == me.id = NoRow /\ schema.unique /\ RowsOf(rows, me.key) # {}
    IN  /\ me.pc = "selected"
        /\ rows' = IF me.id # NoRow
                   THEN HealthMonitor_update(rows, me.id, me.error_count, me.status, me.at)
                   ELSE IF conflict THEN rows
                   ELSE HealthMonitor_insert(rows, schema, me.key, me.status, me.at)
        /\ hret' = [writer |-> w, key |-> me.key, status |-> me.status, at |-> me.at,
                    done |-> ~conflict, raised |-> FALSE, seq |-> hret.seq + 1]
        /\ writers' = [writers EXCEPT ![w] = IdleWriter]
        /\ UNCHANGED <<now, cacheVars, proxyVars, threadVars, schema>>

WritersNext ==
    \/ HealthTick
    \/ \E w \in Writers, key \in WriterKeys, status \in WriterStatuses :
          MonitorSelect(w, key, status)
    \/ \E w \in Writers : MonitorWrite(w)

WritersSpec == WritersInit /\ [][WritersNext]_vars

(***************************************************************************)
(* StoreSpec: the callers of the health store side by side: a proxy whose  *)
(* heartbeat and after_request report through HealthClient, and a scraper  *)
(* whose HealthMonitor writes the table.                                   *)
(***************************************************************************)
MaxStoreCalls == 4   \* heartbeats, requests and monitor reports together

StoreTime == 1       \* the clock of StoreSpec runs 0..StoreTime

StoreBudget == hb.runs + resp.seq + hret.seq < MaxStoreCalls

\* The economic proxy with its health client imported.
StoreInit ==
    /\ ProxyInit
    /\ proxy = "economic"
    /\ hb.health_enabled

StoreNext ==
    \/ now < StoreTime /\ ProxyTick
    \/ StoreBudget /\ HeartbeatMain
    \/ StoreBudget /\ HeartbeatTimer
    \/ StoreBudget /\ \E r \in Requests(proxy), d \in Datas, e \in Errors,
                         ctx, delivered \in BOOLEAN :
                         RouteRequest(r, d, e, ctx, delivered)
    \/ StoreBudget /\ \E key \in WriterKeys, status \in WriterStatuses,
                         connected, fails \in BOOLEAN :
                         MonitorReport(key, status, connected, fails)

StoreSpec == StoreInit /\ [][StoreNext]_vars

(***************************************************************************)
(* ThreadSpec and HandlerSpec: request threads inside SimpleCache and       *)
(* _fetch_and_cache_data, one step per point where another thread can run. *)
(* `x += 1` on a dict entry is a read followed by a write; the lookup      *)
(* self.locks[key] of a key without a lock object calls the factory        *)
(* threading.RLock, a Python function, before it stores the new object.    *)
(***************************************************************************)
MaxOps == 3

KeyOps == {"get", "set", "delete"}

\* pcs between the acquisition and the release of `with self.locks[key]:`
InsidePcs == {"cs", "wr_hits", "wr_evictions", "wr_misses", "wr_entries"}

Holding(u) == threads[u].pc \in InsidePcs

\* lock.acquire() returns: no other thread holds the same lock object.
LockFree(t) ==
    \A u \in Threads \ {t} :
        ~(/\ Holding(u)
          /\ threads[u].key = threads[t].key
          /\ threads[u].lock = threads[t].lock)

\* The thread after the `with` block of its SimpleCache method is left.
Finish(th, rs) ==
    CASE th.op = "clear" ->
           [th EXCEPT !.pc = "clear_next", !.lock = NoLock, !.key = NoKey]
      [] th.op = "request" /\ th.sub = "get" ->
           IF Truthy(th.val) THEN IdleThread
           ELSE [th EXCEPT !.pc = "fetch", !.lock = NoLock]
      [] th.op = "request" /\ th.sub = "set" ->
           [th EXCEPT !.pc = "wr_success", !.lock = NoLock,
                      !.tmp = rs.successful_requests]
      [] OTHER -> IdleThread

ThreadFrame ==
    UNCHANGED <<now, default_ttl, ret, proxy, upstream, outcome, streak,
                health_check_status, hb, resp, healthVars>>

\* A thread enters SimpleCache.get, set or delete.
Begin(t, op, k, ttl) ==
    /\ threads[t].pc = "idle"
    /\ started < MaxOps
    /\ op \in KeyOps
    /\ started' = started + 1
    /\ gets' = IF op = "get" THEN gets + 1 ELSE gets
    /\ threads' = [threads EXCEPT ![t] =
           [IdleThread EXCEPT !.pc = "lookup", !.op = op, !.sub = op, !.key = k,
                              !.ttl = ttl,
                              !.val = IF op = "set" THEN Payload("v1", "test") ELSE None]]
    /\ UNCHANGED <<cache, stats, locks, request_stats>>
    /\ ThreadFrame

\* A thread enters SimpleCache.clear: keys = list(self.cache.keys())
BeginClear(t) ==
    /\ threads[t].pc = "idle"
    /\ started < MaxOps
    /\ started' = started + 1
    /\ UNCHANGED gets
    /\ threads' = [threads EXCEPT ![t] =
           [IdleThread EXCEPT !.pc = "clear_next", !.op = "clear", !.todo = DOMAIN cache]]
    /\ UNCHANGED <<cache, stats, locks, request_stats>>
    /\ ThreadFrame

\* clear's loop: the next key of the snapshot, or stats["entries"] = 0 after
\* the last one.
ClearNext(t) ==
    /\ threads[t].pc = "clear_next"
    /\ IF threads[t].todo = {}
       THEN /\ stats' = [stats EXCEPT !.entries = 0]
            /\ threads' = [threads EXCEPT ![t] = IdleThread]
       ELSE /\ \E k \in threads[t].todo :
                  threads' = [threads EXCEPT ![t] =
                      [@ EXCEPT !.pc = "lookup", !.sub = "delete", !.key = k,
                                !.todo = @ \ {k}]]
            /\ UNCHANGED stats
    /\ UNCHANGED <<cache, locks, started, gets, request_stats>>
    /\ ThreadFrame

\* self.locks[key]: the stored lock object, or defaultdict.__missing__ starts.
Lookup(t) ==
    /\ threads[t].pc = "lookup"
    /\ threads' = [threads EXCEPT ![t] =
           IF threads[t].key \in DOMAIN locks
           THEN [@ EXCEPT !.pc = "acquire", !.lock = locks[threads[t].key]]
           ELSE [@ EXCEPT !.pc = "create"]]
    /\ UNCHANGED <<cache, stats, locks, started, gets, request_stats>>
    /\ ThreadFrame

\* defaultdict.__missing__ stores the lock object the factory returned,
\* whatever is stored for the key by then.
Create(t) ==
    /\ threads[t].pc = "create"
    /\ locks' = DictPut(locks, threads[t].key, t)
    /\ threads' = [threads EXCEPT ![t] = [@ EXCEPT !.pc = "acquire", !.lock = t]]
    /\ UNCHANGED <<cache, stats, started, gets, request_stats>>
    /\ ThreadFrame

Acquire(t) ==
    /\ threads[t].pc = "acquire"
    /\ LockFree(t)
    /\ threads' = [threads EXCEPT ![t] = [@ EXCEPT !.pc = "cs"]]
    /\ UNCHANGED <<cache, stats, locks, started, gets, request_stats>>
    /\ ThreadFrame

\* The body of get, set or delete up to the first counter it reads.
Body(t) ==
    /\ threads[t].pc = "cs"
    /\ LET th == threads[t]
           key == th.key
       IN  CASE th.sub = "get" ->
                  /\ IF key \in DOMAIN cache
                     THEN IF NotExpired(cache[key].expiry, now)
                          THEN /\ threads' = [threads EXCEPT ![t] =
                                      [th EXCEPT !.pc = "wr_hits", !.tmp = stats.hits,
                                                 !.val = cache[key].value]]
                               /\ UNCHANGED cache
                          ELSE /\ cache' = DictDel(cache, key)
                               /\ threads' = [threads EXCEPT ![t] =
                                      [th EXCEPT !.pc = "wr_evictions",
                                                 !.tmp = stats.evictions, !.val = None]]
                     ELSE /\ threads' = [threads EXCEPT ![t] =
                                 [th EXCEPT !.pc = "wr_misses", !.tmp = stats.misses,
                                            !.val = None]]
                          /\ UNCHANGED cache
             [] th.sub = "set" ->
                  IF key \notin DOMAIN cache
                  THEN /\ threads' = [threads EXCEPT ![t] =
                              [th EXCEPT !.pc = "wr_entries", !.tmp = stats.entries]]
                       /\ UNCHANGED cache
                  ELSE /\ cache' = DictPut(cache, key,
                                      [value |-> th.val,
                                       expiry |-> now + (IF th.ttl = Omitted
                                                         THEN default_ttl ELSE th.ttl[1])])
                       /\ threads' = [threads EXCEPT ![t] = Finish(th, request_stats)]
             [] OTHER ->
                  /\ cache' = SimpleCache_delete(cache, key)
                  /\ threads' = [threads EXCEPT ![t] = Finish(th, request_stats)]
    /\ UNCHANGED <<stats, locks, started, gets, request_stats>>
    /\ ThreadFrame

\* The write of `self.stats[...] += 1`, and what follows it inside the lock.
WriteStat(t) ==
    /\ threads[t].pc \in {"wr_hits", "wr_evictions", "wr_misses", "wr_entries"}
    /\ LET th == threads[t]
       IN  CASE th.pc = "wr_hits" ->
                  /\ stats' = [stats EXCEPT !.hits = th.tmp + 1]
                  /\ threads' = [threads EXCEPT ![t] = Finish(th, request_stats)]
                  /\ UNCHANGED cache
             [] th.pc = "wr_evictions" ->
                  /\ stats' = [stats EXCEPT !.evictions = th.tmp + 1]
                  /\ threads' = [threads EXCEPT ![t] =
                         [th EXCEPT !.pc = "wr_misses", !.tmp = stats.misses]]
                  /\ UNCHANGED cache
             [] th.pc = "wr_misses" ->
                  /\ stats' = [stats EXCEPT !.misses = th.tmp + 1]
                  /\ threads' = [threads EXCEPT ![t] = Finish(th, request_stats)]
                  /\ UNCHANGED cache
             [] OTHER ->
                  /\ stats' = [stats EXCEPT !.entries = th.tmp + 1]
                  /\ cache' = DictPut(cache, th.key,
                                      [value |-> th.val,
                                       expiry |-> now + (IF th.ttl = Omitted
                                                         THEN default_ttl ELSE th.ttl[1])])
                  /\ threads' = [threads EXCEPT ![t] = Finish(th, request_stats)]
    /\ UNCHANGED <<locks, started, gets, request_stats>>
    /\ ThreadFrame

ThreadInit ==
    /\ now = 0
    /\ default_ttl = 1
    /\ cache = EmptyCache
    /\ stats = EmptyStats
    /\ ret = NoCall
    /\ ProxyIdle
    /\ HealthIdle
    /\ ThreadIdle

ThreadNext ==
    \/ \E t \in Threads, op \in KeyOps, k \in Keys, ttl \in {Omitted, Given(0)} :
          Begin(t, op, k, ttl)
    \/ \E t \in Threads : BeginClear(t)
    \/ \E t \in Threads : ClearNext(t)
    \/ \E t \in Threads : Lookup(t)
    \/ \E t \in Threads : Create(t)
    \/ \E t \in Threads : Acquire(t)
    \/ \E t \in Threads : Body(t)
    \/ \E t \in Threads : WriteStat(t)

ThreadSpec == ThreadInit /\ [][ThreadNext]_vars

\* The request whose cache key is `key`.
RequestOf(p, key) ==
    CHOOSE r \in Requests(p) : CacheKey(r.cache_type, r.symbol) = key

\* A request thread enters _fetch_and_cache_data and reads total_requests.
BeginRequest(t, r) ==
    /\ threads[t].pc = "idle"
    /\ started < MaxOps
    /\ started' = started + 1
    /\ gets' = gets + 1
    /\ threads' = [threads EXCEPT ![t] =
           [IdleThread EXCEPT !.pc = "wr_total", !.op = "request", !.sub = "get",
                              !.key = CacheKey(r.cache_type, r.symbol),
                              !.tmp = request_stats.total_requests]]
    /\ UNCHANGED <<cache, stats, locks, request_stats>>
    /\ ThreadFrame

\* After a miss: fetch_func is called; its first statement reads api_calls.
Fetch(t) ==
    /\ threads[t].pc = "fetch"
    /\ threads' = [threads EXCEPT ![t] =
           [@ EXCEPT !.pc = "wr_api", !.fetched = TRUE, !.tmp = request_stats.api_calls]]
    /\ UNCHANGED <<cache, stats, locks, started, gets, request_stats>>
    /\ ThreadFrame

\* The write of `self.request_stats[...] += 1`, and what follows it.
WriteRequestStat(t) ==
    /\ threads[t].pc \in {"wr_total", "wr_api", "wr_success", "wr_failed"}
    /\ LET th == threads[t]
       IN  CASE th.pc = "wr_total" ->
                  /\ request_stats' = [request_stats EXCEPT !.total_requests = th.tmp + 1]
                  /\ threads' = [threads EXCEPT ![t] = [th EXCEPT !.pc = "lookup"]]
             [] th.pc = "wr_api" ->
                  /\ request_stats' = [request_stats EXCEPT !.api_calls = th.tmp + 1]
                  /\ threads' = [threads EXCEPT ![t] =
                         IF upstream # "down"
                         THEN [th EXCEPT !.pc = "lookup", !.sub = "set",
                                         !.val = Transform(FetchData(upstream, "d1"),
                                                           RequestOf(proxy, th.key).symbol)]
                         ELSE [th EXCEPT !.pc = "wr_failed",
                                         !.tmp = request_stats.failed_requests]]
             [] th.pc = "wr_success" ->
                  /\ request_stats' =
                         [request_stats EXCEPT !.successful_requests = th.tmp + 1]
                  /\ threads' = [threads EXCEPT ![t] = IdleThread]
             [] OTHER ->
                  /\ request_stats' = [request_stats EXCEPT !.failed_requests = th.tmp + 1]
                  /\ threads' = [threads EXCEPT ![t] = IdleThread]
    /\ UNCHANGED <<cache, stats, locks, started, gets>>
    /\ ThreadFrame

HandlerInit ==
    /\ now = 0
    /\ default_ttl = ProviderTTL
    /\ cache = EmptyCache
    /\ stats = EmptyStats
    /\ ret = NoCall
    /\ proxy \in {"economic", "trends"}
    /\ upstream \in UpstreamStates
    /\ request_stats = EmptyRequestStats
    /\ outcome = NoOutcome
    /\ streak = NoStreak
    /\ health_check_status = InitialHealthCheckStatus
    /\ hb = InitialHeartbeat
    /\ resp = NoResponse
    /\ HealthIdle
    /\ ThreadIdle

HandlerNext ==
    \/ \E t \in Threads, r \in Requests(proxy) : BeginRequest(t, r)
    \/ \E t \in Threads : Fetch(t)
    \/ \E t \in Threads : WriteRequestStat(t)
    \/ \E t \in Threads : Lookup(t)
    \/ \E t \in Threads : Create(t)
    \/ \E t \in Threads : Acquire(t)
    \/ \E t \in Threads : Body(t)
    \/ \E t \in Threads : WriteStat(t)

HandlerSpec == HandlerInit /\ [][HandlerNext]_vars

(***************************************************************************)
(* Claims about SimpleCache (checked under Spec).                          *)
(***************************************************************************)
\* The step is a call get(k): only get counts a hit or a miss.
GetStep(k) ==
    /\ ret'.op = "get"
    /\ ret'.key = k
    /\ stats'.hits + stats'.misses = stats.hits + stats.misses + 1

\* The ttl a set call used.
EffectiveTTL(ttl) == IF ttl = Omitted THEN default_ttl ELSE ttl[1]

\* C1: get(k) returns a stored value only if k's entry expires strictly later
\* than the current time, and then it is that entry's value; when the entry's
\* expiry is at or before the current time, get(k) returns the default (MISS)
\* and the entry is gone after the read.
C1_ExpiredNeverHit ==
    [][\A k \in Keys : GetStep(k) =>
          /\ (ret'.value # None =>
                 /\ k \in DOMAIN cache
                 /\ cache[k].expiry > now
                 /\ ret'.value = cache[k].value)
          /\ ((k \in DOMAIN cache /\ now >= cache[k].expiry) =>
                 /\ ret'.value = None
                 /\ k \notin DOMAIN cache')]_vars

\* C1 witness: a get has just read an expired entry: it returned MISS and the
\* entry was evicted.
C1_Witness ==
    /\ ret.op = "get"
    /\ ret.value = None
    /\ stats.evictions >= 1
    /\ ret.key \notin DOMAIN cache
    /\ ret.at >= 1

\* C10: set(k, v, ttl) with ttl > 0 followed by get(k) with no clock advance
\* and no other cache call in between returns v and counts one hit, no miss
\* and no eviction.
C10_SetThenGet ==
    [][\A k \in Keys :
          (/\ ret.op = "set"
           /\ ret.key = k
           /\ ret.at = now
           /\ EffectiveTTL(ret.ttl) > 0
           /\ GetStep(k)) =>
          /\ ret'.value = ret.arg
          /\ stats'.hits = stats.hits + 1
          /\ stats'.misses = stats.misses
          /\ stats'.evictions = stats.evictions]_vars

\* C10 witness: a get that hit at the very tick of the set, the clock never
\* having advanced.
C10_Witness ==
    /\ ret.op = "get"
    /\ now = 0
    /\ ret.value \in Values
    /\ stats.hits = 1
    /\ stats.misses = 0

\* C11: the first get(k) at or after the expiry of k's entry returns MISS and
\* adds exactly one to evictions and one to misses; every further get(k)
\* before k is set again returns MISS, adds one to misses and leaves
\* evictions as it is.
C11_EvictedOnce ==
    [][\A k \in Keys : GetStep(k) =>
          /\ (k \in DOMAIN cache /\ now >= cache[k].expiry) =>
                 /\ ret'.value = None
                 /\ stats'.evictions = stats.evictions + 1
                 /\ stats'.misses = stats.misses + 1
                 /\ stats'.hits = stats.hits
          /\ (ret.evicted = k) =>
                 /\ ret'.value = None
                 /\ stats'.evictions = stats.evictions
                 /\ stats'.misses = stats.misses + 1
                 /\ stats'.hits = stats.hits]_vars

\* C11 witness: a get evicted the expired entry of a key and a second get of
\* the same key, not set in between, missed again; one eviction was counted.
C11_Witness ==
    /\ ret.op = "get"
    /\ ret.key = ret.evicted
    /\ ret.value = None
    /\ stats.misses = 2
    /\ stats.evictions = 1

\* C12: in every reachable state stats.entries equals the number of keys
\* stored in the cache map.
C12_EntriesTracksKeys == stats.entries = Cardinality(DOMAIN cache)

\* The step is a call of the SimpleCache method op (a repeated call that
\* changes nothing is no step).
CallStep(op) == ret' # ret /\ ret'.op = op

\* C23: set(k, v, ttl) stores v with expiry now + ttl, with default_ttl for an
\* omitted ttl; entries grows by exactly one when k was not stored and stays
\* when k was stored, whose value and expiry are replaced; the entries of all
\* other keys, and hits, misses and evictions, are unchanged.
C23_SetFrame ==
    [][CallStep("set") =>
          LET k == ret'.key
          IN  /\ DOMAIN cache' = DOMAIN cache \cup {k}
              /\ cache'[k] = [value |-> ret'.arg,
                              expiry |-> now + EffectiveTTL(ret'.ttl)]
              /\ stats'.entries = IF k \in DOMAIN cache THEN stats.entries
                                  ELSE stats.entries + 1
              /\ \A x \in DOMAIN cache \ {k} : cache'[x] = cache[x]
              /\ stats'.hits = stats.hits
              /\ stats'.misses = stats.misses
              /\ stats'.evictions = stats.evictions]_vars

\* C23 witness: after a set, two keys with different expiries are stored.
C23_Witness ==
    /\ ret.op = "set"
    /\ DOMAIN cache = Keys
    /\ cache["k1"].expiry # cache["k2"].expiry
    /\ stats.entries = 2

\* C24: a step in which the clock advances changes neither the cache map nor
\* a counter; a stored key leaves the map only by a get, delete or clear; and
\* delete and clear leave hits, misses and evictions unchanged.
C24_NoSweep ==
    [][/\ now' # now => (cache' = cache /\ stats' = stats)
       /\ \A k \in DOMAIN cache :
             k \notin DOMAIN cache' =>
                \/ CallStep("get") /\ ret'.key = k
                \/ CallStep("delete") /\ ret'.key = k
                \/ CallStep("clear")
       /\ (CallStep("delete") \/ CallStep("clear")) =>
             /\ stats'.hits = stats.hits
             /\ stats'.misses = stats.misses
             /\ stats'.evictions = stats.evictions]_vars

\* C24 witness: after a delete of another key, an entry whose expiry has
\* passed is still stored, and the hit counted earlier is still counted.
C24_Witness ==
    /\ ret.op = "delete"
    /\ \E k \in DOMAIN cache : cache[k].expiry < now
    /\ stats.hits = 1

(***************************************************************************)
(* Claims about the providers and the heartbeat (checked under ProxySpec). *)
(***************************************************************************)
\* The step is one call of _fetch_and_cache_data: only it counts a request.
ProviderCallStep(k) ==
    /\ request_stats'.total_requests = request_stats.total_requests + 1
    /\ outcome'.key = k

RequestKeys == {CacheKey(r.cache_type, r.symbol) : r \in Requests(proxy)}

Live(k) == k \in DOMAIN cache /\ cache[k].expiry > now

\* C2: when the request's key has a live cache entry, _fetch_and_cache_data
\* returns the cached value and does not call the upstream (api_calls is
\* unchanged), whether the upstream is up or down.
C2_HitSkipsUpstream ==
    [][\A k \in RequestKeys :
          (ProviderCallStep(k) /\ Live(k)) =>
          /\ outcome'.kind = "hit"
          /\ outcome'.value = cache[k].value
          /\ outcome'.error = NoError
          /\ request_stats'.api_calls = request_stats.api_calls]_vars

\* C2 witness: a request was answered from the cache while the upstream was
\* down.
C2_Witness ==
    /\ outcome.call = "request"
    /\ outcome.kind = "hit"
    /\ upstream = "down"
    /\ request_stats.api_calls >= 1

\* C3: in the economic and trends providers a cache miss calls the fetch
\* function exactly once; when it returns, the result is stored under the
\* request's key with the provider's TTL before it is returned, so that a
\* request for the key at any time within the TTL is a hit; when it raises,
\* nothing is stored for the key, failed_requests grows by one and the
\* exception raised by the fetch is the one that leaves the call.
C3_MissFetchesOnce ==
    [][\A r \in Requests(proxy) :
          LET k == CacheKey(r.cache_type, r.symbol)
          IN  (proxy \in {"economic", "trends"} /\ ProviderCallStep(k) /\ ~Live(k)) =>
              /\ request_stats'.api_calls = request_stats.api_calls + 1
              /\ upstream = "up" =>
                    /\ outcome'.kind = "fetched"
                    /\ k \in DOMAIN cache'
                    /\ cache'[k].value = outcome'.value
                    /\ request_stats'.failed_requests = request_stats.failed_requests
                    /\ \A t \in now .. (now + default_ttl - 1), u \in UpstreamStates :
                          LET again == Provider_fetch_and_cache_data(
                                           cache', stats', request_stats', r.cache_type,
                                           r.symbol, t, default_ttl, u, "d1", "e1")
                          IN  /\ again.kind = "hit"
                              /\ again.value = outcome'.value
              /\ upstream = "down" =>
                    /\ outcome'.kind = "raised"
                    /\ k \notin DOMAIN cache'
                    /\ request_stats'.failed_requests = request_stats.failed_requests + 1
                    /\ outcome'.error = outcome'.fetch_error
                    /\ outcome'.error \in Errors]_vars

\* C3 witness: the economic or trends provider has stored a fetched result and
\* then, on a later miss, had its fetch raise.
C3_Witness ==
    /\ proxy \in {"economic", "trends"}
    /\ outcome.call = "request"
    /\ outcome.kind = "raised"
    /\ request_stats.successful_requests >= 1
    /\ request_stats.failed_requests >= 1
    /\ outcome.key \notin DOMAIN cache

C18_OneReportPerBeat ==
    [][(hb'.runs = hb.runs + 1) =>
          /\ hb'.sent = 1
          /\ IF outcome'.kind # "raised"
             THEN /\ hb'.report.status = "healthy"
                  /\ hb'.report.response_time_ms # <<>>
             ELSE /\ hb'.report.status = "failed"
                  /\ hb'.report.error_message = outcome'.error
                  /\ hb'.report.consecutive_failures =
                         health_check_status'.consecutive_failures]_vars

\* The step is one execution of heartbeat_check.
HeartbeatStep == hb'.runs = hb.runs + 1

\* C25: every execution of heartbeat_check leaves consecutive_failures at 0
\* when the canary call returned and at its earlier value plus one when it
\* raised; and after it status is "ok" exactly when is_healthy is true,
\* exactly when consecutive_failures is 0.
C25_FailureCount ==
    [][HeartbeatStep =>
          LET before == health_check_status
              after == health_check_status'
          IN  /\ after.consecutive_failures =
                    (IF outcome'.kind = "raised"
                     THEN before.consecutive_failures + 1 ELSE 0)
              /\ (after.status = "ok") <=> after.is_healthy
              /\ after.is_healthy <=> (after.consecutive_failures = 0)
              /\ after.status \in {"ok", "failed"}]_vars

\* C25 witness: a success after a failure: the count is back at 0 in a
\* process whose second execution found the upstream up and nothing cached.
C25_Witness ==
    /\ hb.runs = 2
    /\ outcome.call = "heartbeat"
    /\ outcome.kind = "fetched"
    /\ request_stats.failed_requests = 1
    /\ health_check_status.consecutive_failures = 0
    /\ health_check_status.status = "ok"

\* The cache key of the heartbeat's canary call.
CanaryKey == CacheKey(CanaryRequest(proxy).cache_type, CanaryRequest(proxy).symbol)

\* In the economic and trends proxies an execution of heartbeat_check calls
\* the upstream only when the canary key has no live entry; with a live entry
\* it takes the cached value without an upstream call and sets status "ok".
CanaryFromCache ==
    (proxy \in {"economic", "trends"} /\ HeartbeatStep) =>
       /\ request_stats'.api_calls # request_stats.api_calls => ~Live(CanaryKey)
       /\ Live(CanaryKey) =>
             /\ outcome'.kind = "hit"
             /\ outcome'.value = cache[CanaryKey].value
             /\ request_stats'.api_calls = request_stats.api_calls
             /\ health_check_status'.status = "ok"

ResponseStep == resp'.seq = resp.seq + 1

C26_OneReportPerRequest ==
    [][ResponseStep =>
          IF resp'.path = "/health"
          THEN resp'.reports = 0
          ELSE /\ resp'.reports = 1
               /\ resp'.report.status = ReportedStatus(resp'.status_code)]_vars

(***************************************************************************)
(* The announced retry policy and circuit breaker (checked under           *)
(* WatchedSpec).  `streak` holds what a breaker with FailureThreshold and  *)
(* RecoveryTimeout would have seen of the provider's upstream calls.       *)
(***************************************************************************)
\* A breaker that opened at the FailureThreshold-th consecutive failure is
\* still Open: the recovery timeout has not elapsed since the last failure.
WouldBeOpen ==
    /\ streak.count >= FailureThreshold
    /\ now - streak.last_failure_at < RecoveryTimeout

\* C4: once failure_threshold consecutive upstream calls have failed, every
\* further call made before recovery_timeout has elapsed is rejected without
\* the upstream being called: api_calls does not grow and no further failure
\* of the upstream is seen.
C4_OpenRejects ==
    [][WouldBeOpen =>
          /\ request_stats'.api_calls = request_stats.api_calls
          /\ streak'.count = streak.count]_vars

\* C5: after recovery_timeout the next call reaches the upstream as a trial;
\* a successful trial resets the failure count to 0, and a fresh run of
\* failure_threshold consecutive failures then opens the breaker again, so
\* that calls made before recovery_timeout has elapsed do not reach the
\* upstream.
C5_TrialThenReopen ==
    [][/\ \A k \in RequestKeys :
             (/\ streak.count >= FailureThreshold
              /\ now - streak.last_failure_at >= RecoveryTimeout
              /\ ProviderCallStep(k)
              /\ ~Live(k)) =>
             /\ request_stats'.api_calls = request_stats.api_calls + 1
             /\ (outcome'.kind = "fetched") => (streak'.count = 0)
       /\ (streak.recovered /\ WouldBeOpen) =>
             request_stats'.api_calls = request_stats.api_calls]_vars

\* C6: with max_retries = MaxRetries, a call whose upstream operation fails
\* on every attempt invokes the operation MaxRetries + 1 times and then
\* raises the last attempt's error unmodified.
C6_RetriesExhausted ==
    [][\A k \in RequestKeys :
          (ProviderCallStep(k) /\ outcome'.kind = "raised") =>
          /\ request_stats'.api_calls = request_stats.api_calls + MaxRetries + 1
          /\ outcome'.error = outcome'.fetch_error]_vars

\* C16: a call let through after recovery_timeout is a Half-Open trial; when
\* it fails the breaker is Open again with last_failure_at set to the time of
\* that failure, so that no call reaches the wrapped operation until
\* recovery_timeout has elapsed once more.
C16_TrialFailureReopens ==
    [][/\ \A k \in RequestKeys :
             (/\ streak.count >= FailureThreshold
              /\ now - streak.last_failure_at >= RecoveryTimeout
              /\ ProviderCallStep(k)
              /\ outcome'.kind = "raised") =>
             streak'.last_failure_at = now
       /\ (streak.trial_failed /\ now - streak.last_failure_at < RecoveryTimeout) =>
             request_stats'.api_calls = request_stats.api_calls]_vars

\* C17: while the breaker is Open a request whose key is live in the cache is
\* answered from the cache; a request whose entry has expired while the
\* breaker is still Open is rejected with CircuitOpenError and the upstream is
\* not called.
C17_OpenServesCacheOnly ==
    [][\A k \in RequestKeys :
          (WouldBeOpen /\ ProviderCallStep(k) /\ k \in DOMAIN cache) =>
          IF Live(k)
          THEN /\ outcome'.kind = "hit"
               /\ outcome'.value = cache[k].value
               /\ request_stats'.api_calls = request_stats.api_calls
          ELSE /\ outcome'.kind = "raised"
               /\ outcome'.error = "CircuitOpenError"
               /\ request_stats'.api_calls = request_stats.api_calls]_vars

(***************************************************************************)
(* Claims about the health table (checked under HealthSpec).               *)
(***************************************************************************)
\* The step is a committed health report.
ReportStep == hret'.seq = hret.seq + 1 /\ hret'.done

\* The keys a report is for.
Addressed(h) ==
    {k \in HealthKeys : k[2] = h.key[2] /\ (h.key[1] = AnyType \/ k[1] = h.key[1])}

\* The rows of table tbl a report is for.
AddressedRows(tbl, h) == {i \in DOMAIN tbl : tbl[i].key \in Addressed(h)}

\* C8: every health report leaves the row of its key with last_check equal to
\* the report's time, creating the row if the key had none; last_success
\* becomes the report's time when the status is Healthy, Degraded or Limited,
\* and keeps its earlier value (none for a new row) when the status is Failed
\* or Unknown.
C8_LastSuccessOnSuccess ==
    [][ReportStep =>
          /\ AddressedRows(rows', hret') # {}
          /\ \A i \in AddressedRows(rows', hret') :
                /\ rows'[i].last_check = now
                /\ rows'[i].last_success =
                      IF hret'.status \in SuccessStatuses THEN Given(now)
                      ELSE IF i \in DOMAIN rows THEN rows[i].last_success
                      ELSE Null]_vars

\* C9: error_count of a key changes only by a report with status Failed, which
\* adds one to it, counting from 0 when the report is the key's first; a
\* report with any other status leaves it as it was.
C9_ErrorCountOnFailed ==
    [][/\ ReportStep =>
             \A i \in AddressedRows(rows', hret') :
                LET before == IF i \in DOMAIN rows THEN rows[i].error_count ELSE 0
                IN  rows'[i].error_count =
                       IF hret'.status = "failed" THEN before + 1 ELSE before
       /\ \A i \in DOMAIN rows :
             (i \in DOMAIN rows' /\ rows'[i].error_count # rows[i].error_count) =>
             (ReportStep /\ hret'.status = "failed")]_vars

\* C21: no failure of the health store leaves update_health_status or
\* report_health as an exception: a monitor report that could not be written
\* returns with the table as it was; a heartbeat whose report was not
\* accepted still completes (last_check written, next timer armed); and a
\* request answers what its view produced, whatever became of its report.
C21_StoreFailureSwallowed ==
    [][/\ (hret'.seq = hret.seq + 1) =>
             /\ ~hret'.raised
             /\ ~hret'.done => rows' = rows
       /\ (hb'.runs = hb.runs + 1) =>
             /\ ~hb'.raised
             /\ health_check_status'.last_check = now
             /\ hb'.timers >= 1
       /\ (resp'.seq = resp.seq + 1) =>
             /\ ~resp'.raised
             /\ resp'.status_code = (IF outcome'.kind = "raised" THEN 500 ELSE 200)
             /\ outcome'.kind # "raised" =>
                   resp'.body = [kind |-> "data", value |-> outcome'.value]]_vars

\* C21 witness: a heartbeat report and a request report were both refused
\* by the health service, and a monitor report failed with a row stored.
C21_Witness ==
    /\ hb.sent >= 1
    /\ ~hb.report.delivered
    /\ hb.timers >= 1
    /\ resp.reports = 1
    /\ ~resp.report.delivered
    /\ hret.seq >= 2
    /\ ~hret.done
    /\ Len(rows) = 1

\* The keys whose rows a step changes or creates.
KeysWritten ==
    {rows'[i].key : i \in {j \in DOMAIN rows' : j \notin DOMAIN rows \/ rows'[j] # rows[j]}}

\* C27: a health write changes or creates rows of one (source_type,
\* source_name) key at most: the rows of every other key, those with the same
\* source_name under another source_type included, are as they were.
C27_OtherKeysUntouched ==
    [][/\ Cardinality(KeysWritten) <= 1
       /\ \A i \in DOMAIN rows : i \in DOMAIN rows']_vars

\* C19: error_count of a row never decreases, whatever the interleaving of
\* update_health_status calls by different writers.
C19_ErrorCountNeverDecreases ==
    [][\A i \in DOMAIN rows :
          i \in DOMAIN rows' /\ rows'[i].error_count >= rows[i].error_count]_vars

\* C20: the table holds at most one row per (source_type, source_name), and a
\* report for a key that has a row updates that row: no row is removed, and
\* every committed or attempted report leaves its key's single row carrying
\* the report's status.
C20_OneRowPerKey ==
    /\ \A key \in HealthKeys : Cardinality(RowsOf(rows, key)) <= 1
    /\ hret.seq > 0 =>
          \E i \in RowsOf(rows, hret.key) : rows[i].status = hret.status

(***************************************************************************)
(* Claims about SimpleCache under concurrent threads (ThreadSpec).         *)
(***************************************************************************)
\* C13: no step of any thread, in any interleaving of cache calls, lowers
\* hits, misses or evictions.
C13_CountersMonotone ==
    [][/\ stats'.hits >= stats.hits
       /\ stats'.misses >= stats.misses
       /\ stats'.evictions >= stats.evictions]_vars

\* C14: two threads are never both inside the `with self.locks[key]` block
\* of get, set or delete for the same key, and a thread waiting for the lock
\* of its key is not held up by threads that are inside the block for other
\* keys only.
C14_PerKeyExclusion ==
    /\ \A t \in Threads : \A u \in Threads \ {t} :
          ~(Holding(t) /\ Holding(u) /\ threads[t].key = threads[u].key)
    /\ \A t \in Threads :
          (/\ threads[t].pc = "acquire"
           /\ \A u \in Threads \ {t} : Holding(u) => threads[u].key # threads[t].key)
          => LockFree(t)

(***************************************************************************)
(* Claims about concurrent request handlers (checked under HandlerSpec).   *)
(***************************************************************************)
\* C28: whenever no SimpleCache call is in progress, hits + misses equals the
\* number of get calls made, and evictions is at most misses.
C28_GetsAccounted ==
    (\A t \in Threads : threads[t].pc = "idle") =>
       /\ stats.hits + stats.misses = gets
       /\ stats.evictions <= stats.misses

\* C15: of two handlers that are inside _fetch_and_cache_data for the same
\* key at the same time, at most one has called the upstream.
C15_OneFetchInFlight ==
    \A t \in Threads : \A u \in Threads \ {t} :
        ~(/\ threads[t].op = "request"
          /\ threads[u].op = "request"
          /\ threads[t].key = threads[u].key
          /\ threads[t].fetched
          /\ threads[u].fetched)

====
